---------------------------- MODULE Spec2Model ----------------------------
(***************************************************************************)
(* Model of the generic FIFO queue of src/queue.go (Queue[T comparable],   *)
(* instantiated at T = int).                                               *)
(*                                                                         *)
(* A Go slice is a window (array, offset, length, capacity) over a backing *)
(* array that lives on the heap. The model keeps the heap explicitly, so   *)
(* that aliasing between slices, stale slots behind or after the window    *)
(* and reallocation by append are all part of the state.                   *)
(*                                                                         *)
(* Three variables of the modelled program hold a slice:                   *)
(*   q == queue 1, made by NewQueue()                                      *)
(*   c == queue 2, made by q.Copy() (absent until the first Copy)          *)
(*   s == the slice returned by q.ToSlice() and kept by the caller         *)
(***************************************************************************)
EXTENDS Integers, Sequences, FiniteSets, TLC

\* ------------------------------------------------------------------ bounds
\* longest queue the model enqueues to
MaxLen == 3
\* element values are 0..MaxVal
MaxVal == 1
\* backing arrays that can be live at once
NumArr == 3
\* enqueue calls recorded by the history specification
MaxOps == 4
\* longest queue, and longest caller-held slice, of the programs that keep a
\* copy (c := q.Copy(), s := q.ToSlice())
MaxLenCopy == 2

Values == 0..MaxVal
\* the zero value of T (var zero T), T = int
Zero == 0
ArrIds == 1..NumArr
\* the array field of a slice that has no addressable slot (nil, or capacity 0)
NoArray == 0
\* the two queue variables of the program
Q == 1
C == 2
QIds == {Q, C}
\* the caller's variable s that holds the result of ToSlice
S == 3
\* everything that holds a slice: q.data, c.data, s
Holders == {Q, C, S}

VARIABLES
    heap,    \* heap[a]: contents of backing array a, <<>> when a is free
    data,    \* data[i]: the slice held in field `data` of queue i; data[S]: s
    copied,  \* TRUE once c := q.Copy() has run, i.e. queue 2 exists
    last,    \* the last call made and what it returned
    enq,     \* history: values passed to Enqueue (history specification only)
    deq      \* history: values returned by successful Dequeue calls

vars == <<heap, data, copied, last, enq, deq>>

\* ------------------------------------------------------- Go slice semantics
\* the nil slice: the zero value of the field `data`
NilSlice == [arr |-> NoArray, off |-> 0, len |-> 0, cap |-> 0, isnil |-> TRUE]

\* s[i], 0-based as in Go, for 0 <= i < len(s)
At(h, s, i) == h[s.arr][s.off + i + 1]

\* the visible elements of s, head to tail
Window(h, s) == [i \in 1..s.len |-> At(h, s, i - 1)]

\* lowest free array id (the allocator)
FreeId(h) == CHOOSE a \in ArrIds : h[a] = <<>> /\ \A b \in ArrIds : h[b] = <<>> => a <= b

\* make([]T, n): a fresh zeroed array of n slots; no array is needed for n = 0
MakeSlice(h, n) ==
    IF n = 0
    THEN [h |-> h, s |-> [arr |-> NoArray, off |-> 0, len |-> 0, cap |-> 0, isnil |-> FALSE]]
    ELSE LET a == FreeId(h) IN
         [h |-> [h EXCEPT ![a] = [k \in 1..n |-> Zero]],
          s |-> [arr |-> a, off |-> 0, len |-> n, cap |-> n, isnil |-> FALSE]]

\* copy(dst, src): copies min(len(dst), len(src)) elements into dst's array
RECURSIVE CopyLoop(_, _, _, _, _)
CopyLoop(h, dst, src, i, n) ==
    IF i >= n THEN h
    ELSE CopyLoop([h EXCEPT ![dst.arr][dst.off + i + 1] = At(h, src, i)], dst, src, i + 1, n)

GoCopy(h, dst, src) ==
    CopyLoop(h, dst, src, 0, IF dst.len < src.len THEN dst.len ELSE src.len)

\* the capacity append grows to (runtime growslice, 8-byte elements, small
\* capacities: doubling, or the needed length when that is larger)
GrowCap(oldCap, newLen) == IF newLen > 2 * oldCap THEN newLen ELSE 2 * oldCap

\* append(s, v): in place when there is spare capacity, else into a new array
GoAppend(h, s, v) ==
    IF s.len < s.cap
    THEN [h |-> [h EXCEPT ![s.arr][s.off + s.len + 1] = v],
          s |-> [s EXCEPT !.len = s.len + 1]]
    ELSE LET n == GrowCap(s.cap, s.len + 1)
             a == FreeId(h)
             fresh == [k \in 1..n |-> IF k <= s.len THEN At(h, s, k - 1)
                                      ELSE IF k = s.len + 1 THEN v ELSE Zero]
         IN [h |-> [h EXCEPT ![a] = fresh],
             s |-> [arr |-> a, off |-> 0, len |-> s.len + 1, cap |-> n, isnil |-> FALSE]]

\* mutant of SliceFrom1: q.data[1:cap(q.data)], the spare slots become elements
SliceFrom1Cap(s) ==
    IF s.cap - 1 = 0
    THEN [arr |-> NoArray, off |-> 0, len |-> 0, cap |-> 0, isnil |-> FALSE]
    ELSE [s EXCEPT !.off = s.off + 1, !.len = s.cap - 1, !.cap = s.cap - 1]

\* s[1:], for len(s) >= 1. When nothing remains addressable (capacity 0) the
\* pointer is not advanced past the array and no slot can be reached again.
SliceFrom1(s) ==
    IF s.cap - 1 = 0
    THEN [arr |-> NoArray, off |-> 0, len |-> 0, cap |-> 0, isnil |-> FALSE]
    ELSE [s EXCEPT !.off = s.off + 1, !.len = s.len - 1, !.cap = s.cap - 1]

\* mutant of SlicesDelete: truncates without shifting s[i+1:] left
SlicesDeleteTail(h, s, i) ==
    [h |-> [h EXCEPT ![s.arr][s.off + s.len] = Zero],
     s |-> [s EXCEPT !.len = s.len - 1]]

\* slices.Delete(s, i, i+1): shifts s[i+1:] left by one in place, zeroes the
\* vacated last slot and returns s[:len(s)-1]
SlicesDelete(h, s, i) ==
    LET moved == [k \in 1..Len(h[s.arr]) |->
                    LET p == k - s.off - 1 IN      \* index of slot k in s
                    IF p >= i /\ p < s.len - 1 THEN h[s.arr][k + 1]
                    ELSE IF p = s.len - 1 THEN Zero
                    ELSE h[s.arr][k]]
    IN [h |-> [h EXCEPT ![s.arr] = moved],
        s |-> [s EXCEPT !.len = s.len - 1]]

\* mutant of SlicesContains: scans the whole capacity, q.data[:cap(q.data)]
SlicesContainsCap(h, s, v) == \E i \in 0..(s.cap - 1) : At(h, s, i) = v

\* slices.Contains(s, v)
SlicesContains(h, s, v) == \E i \in 0..(s.len - 1) : At(h, s, i) = v

\* Garbage collection. An array no slice refers to is freed. Array identity
\* is not observable by the program, so the live arrays are also renamed: the
\* array of q.data is array Q, that of c.data is array C and that of s is
\* array S, unless it is shared with a holder named earlier.
Rename(d, a) ==
    IF a = NoArray THEN NoArray
    ELSE IF a = d[Q].arr THEN Q
    ELSE IF a = d[C].arr THEN C
    ELSE S

Collect(h, d) ==
    [h |-> [a \in ArrIds |->
              IF a = Q /\ d[Q].arr # NoArray THEN h[d[Q].arr]
              ELSE IF a = C /\ d[C].arr \notin {NoArray, d[Q].arr} THEN h[d[C].arr]
              ELSE IF a = S /\ d[S].arr \notin {NoArray, d[Q].arr, d[C].arr} THEN h[d[S].arr]
              ELSE <<>>],
     d |-> [i \in Holders |-> [d[i] EXCEPT !.arr = Rename(d, d[i].arr)]]]

\* A slot in front of every slice that refers to its array can never be
\* addressed again (a slice grows only to the right). The programs that keep
\* a copy drop what such slots hold, which no call can observe.
Reachable(h, d, a) ==
    [k \in 1..Len(h[a]) |->
        IF \A i \in Holders : d[i].arr = a => k <= d[i].off THEN Zero ELSE h[a][k]]

CollectScrub(h, d) ==
    Collect([a \in ArrIds |-> Reachable(h, d, a)], d)

\* ------------------------------------------------------------ Queue methods
\* Each method takes the heap h and the receiver's slice s (q.data) and
\* returns the heap and slice afterwards together with its results.

\* NewQueue: &Queue[T]{}, the field data is the nil slice
NewQueue == NilSlice

\* mutant of IsEmpty: q.data == nil
IsEmptyNil(s) == s.isnil

\* IsEmpty: len(q.data) == 0
IsEmpty(s) == s.len = 0

\* mutant of Size: cap(q.data)
SizeCap(s) == s.cap

\* Size: len(q.data)
Size(s) == s.len

\* mutant of Enqueue: q.data = append([]T{data}, q.data...), at the head
EnqueuePrepend(h, s, v) ==
    LET a == FreeId(h)
        fresh == [k \in 1..(s.len + 1) |-> IF k = 1 THEN v ELSE At(h, s, k - 2)]
    IN [h |-> [h EXCEPT ![a] = fresh],
        s |-> [arr |-> a, off |-> 0, len |-> s.len + 1, cap |-> s.len + 1, isnil |-> FALSE]]

\* mutant of Enqueue: q.data = append(q.data[:0], data)
EnqueueReset(h, s, v) == GoAppend(h, [s EXCEPT !.len = 0], v)

\* Enqueue: q.data = append(q.data, data)
Enqueue(h, s, v) == GoAppend(h, s, v)

\* mutant of Dequeue: takes from the tail, q.data = q.data[:len-1]
DequeueLIFO(h, s) ==
    IF IsEmpty(s)
    THEN [h |-> h, s |-> s, val |-> Zero, err |-> TRUE]
    ELSE [h |-> h, s |-> [s EXCEPT !.len = s.len - 1],
          val |-> At(h, s, Size(s) - 1), err |-> FALSE]

\* mutant of Dequeue: returns the head and forgets q.data = q.data[1:]
DequeueKeep(h, s) ==
    IF IsEmpty(s)
    THEN [h |-> h, s |-> s, val |-> Zero, err |-> TRUE]
    ELSE [h |-> h, s |-> s, val |-> At(h, s, 0), err |-> FALSE]

\* Dequeue: the error and the zero value when empty, else the head, and
\* q.data = q.data[1:]
Dequeue(h, s) ==
    IF IsEmpty(s)
    THEN [h |-> h, s |-> s, val |-> Zero, err |-> TRUE]
    ELSE [h |-> h, s |-> SliceFrom1(s), val |-> At(h, s, 0), err |-> FALSE]

\* mutant of Front: the empty queue yields the zero value and no error
FrontNoErr(h, s) ==
    IF IsEmpty(s)
    THEN [val |-> Zero, err |-> FALSE]
    ELSE [val |-> At(h, s, 0), err |-> FALSE]

\* Front: the error and the zero value when empty, else q.data[0]
Front(h, s) ==
    IF IsEmpty(s)
    THEN [val |-> Zero, err |-> TRUE]
    ELSE [val |-> At(h, s, 0), err |-> FALSE]

\* mutant of PeekLast: returns q.data[0]
PeekLastHead(h, s) ==
    IF IsEmpty(s)
    THEN [val |-> Zero, err |-> TRUE]
    ELSE [val |-> At(h, s, 0), err |-> FALSE]

\* PeekLast: the error and the zero value when empty, else q.data[q.Size()-1]
PeekLast(h, s) ==
    IF IsEmpty(s)
    THEN [val |-> Zero, err |-> TRUE]
    ELSE [val |-> At(h, s, Size(s) - 1), err |-> FALSE]

\* mutant of Clear: q.data = make([]T, q.Size())
ClearSized(h, s) == MakeSlice(h, Size(s))

\* Clear: q.data = make([]T, 0)
Clear(h, s) == MakeSlice(h, 0)

\* Contains: slices.Contains(q.data, data)
Contains(h, s, v) == SlicesContains(h, s, v)

\* mutant of ToSlice: result := make([]T, 0, q.Size()), copy() copies nothing
ToSliceEmptyMake(h, s) ==
    LET m == MakeSlice(h, Size(s)) IN
    [h |-> m.h, s |-> [m.s EXCEPT !.len = 0]]

\* mutant of ToSlice: return q.data
ToSliceShared(h, s) == [h |-> h, s |-> s]

\* ToSlice: result := make([]T, q.Size()); copy(result, q.data)
ToSlice(h, s) ==
    LET m == MakeSlice(h, Size(s)) IN
    [h |-> GoCopy(m.h, m.s, s), s |-> m.s]

\* mutant of RemoveLoop: the scan that finds nothing returns true
RECURSIVE RemoveLoopTrue(_, _, _, _)
RemoveLoopTrue(h, s, v, i) ==
    IF i >= s.len THEN [h |-> h, s |-> s, flag |-> TRUE]
    ELSE IF At(h, s, i) = v
         THEN LET r == SlicesDelete(h, s, i) IN [h |-> r.h, s |-> r.s, flag |-> TRUE]
         ELSE RemoveLoopTrue(h, s, v, i + 1)

\* mutant of RemoveLoop: scans from the tail, deletes the last occurrence
RECURSIVE RemoveLoopLast(_, _, _, _)
RemoveLoopLast(h, s, v, i) ==
    IF i >= s.len THEN [h |-> h, s |-> s, flag |-> FALSE]
    ELSE IF At(h, s, s.len - 1 - i) = v
         THEN LET r == SlicesDelete(h, s, s.len - 1 - i) IN
              [h |-> r.h, s |-> r.s, flag |-> TRUE]
         ELSE RemoveLoopLast(h, s, v, i + 1)

\* Remove: scan from the head, delete the first element equal to v
RECURSIVE RemoveLoop(_, _, _, _)
RemoveLoop(h, s, v, i) ==
    IF i >= s.len THEN [h |-> h, s |-> s, flag |-> FALSE]
    ELSE IF At(h, s, i) = v
         THEN LET r == SlicesDelete(h, s, i) IN [h |-> r.h, s |-> r.s, flag |-> TRUE]
         ELSE RemoveLoop(h, s, v, i + 1)

Remove(h, s, v) == RemoveLoop(h, s, v, 0)

\* mutant of Copy: &Queue[T]{data: q.data}, the copy shares the array
CopyShared(h, s) == [h |-> h, s |-> s]

\* mutant of Copy: newData := make([]T, 0, q.Size()), so copy() copies nothing
CopyEmptyMake(h, s) ==
    LET m == MakeSlice(h, Size(s)) IN
    [h |-> m.h, s |-> [m.s EXCEPT !.len = 0]]

\* Copy: newData := make([]T, q.Size()); copy(newData, q.data);
\* &Queue[T]{data: newData}
Copy(h, s) ==
    LET m == MakeSlice(h, Size(s)) IN
    [h |-> GoCopy(m.h, m.s, s), s |-> m.s]

\* mutant of ReverseLoop: j is never decremented
RECURSIVE ReverseLoopStuck(_, _, _, _)
ReverseLoopStuck(h, s, i, j) ==
    IF i < j
    THEN ReverseLoopStuck([h EXCEPT ![s.arr][s.off + i + 1] = At(h, s, j),
                                    ![s.arr][s.off + j + 1] = At(h, s, i)],
                          s, i + 1, j)
    ELSE h

\* mutant of ReverseLoop: q.data[i] = q.data[j]; q.data[j] = q.data[i]
RECURSIVE ReverseLoopClobber(_, _, _, _)
ReverseLoopClobber(h, s, i, j) ==
    IF i < j
    THEN ReverseLoopClobber([h EXCEPT ![s.arr][s.off + i + 1] = At(h, s, j)],
                            s, i + 1, j - 1)
    ELSE h

\* Reverse: for i, j := 0, q.Size()-1; i < j; i, j = i+1, j-1 { swap }
RECURSIVE ReverseLoop(_, _, _, _)
ReverseLoop(h, s, i, j) ==
    IF i < j
    THEN ReverseLoop([h EXCEPT ![s.arr][s.off + i + 1] = At(h, s, j),
                               ![s.arr][s.off + j + 1] = At(h, s, i)],
                     s, i + 1, j - 1)
    ELSE h

Reverse(h, s) == [h |-> ReverseLoop(h, s, 0, Size(s) - 1), s |-> s]

\* ------------------------------------------------------ run-time panics
\* The index and slice expressions each method evaluates on the path it takes,
\* and whether one of them is out of range (which aborts the program).

\* q.data[i] is in range
InRange(s, i) == 0 <= i /\ i < s.len

\* Dequeue: q.data[0] and q.data[1:] behind the IsEmpty check
DequeuePanics(s) == ~IsEmpty(s) /\ (~InRange(s, 0) \/ 1 > s.len)

\* Front: q.data[0] behind the IsEmpty check
FrontPanics(s) == ~IsEmpty(s) /\ ~InRange(s, 0)

\* PeekLast: q.data[q.Size()-1] behind the IsEmpty check
PeekLastPanics(s) == ~IsEmpty(s) /\ ~InRange(s, Size(s) - 1)

\* ToSlice and Copy: make([]T, q.Size()) needs a length that is not negative;
\* copy() never reads past either slice
MakePanics(s) == Size(s) < 0

\* Remove: slices.Delete(q.data, i, i+1) at the index i the range loop found
RemovePanics(h, s, v) ==
    \E i \in 0..(s.len - 1) :
        /\ At(h, s, i) = v
        /\ \A j \in 0..(i - 1) : At(h, s, j) # v
        /\ i + 1 > s.len

\* Reverse: q.data[i] and q.data[j] in every iteration of the loop
RECURSIVE ReversePanicsFrom(_, _, _)
ReversePanicsFrom(s, i, j) ==
    IF i < j
    THEN ~InRange(s, i) \/ ~InRange(s, j) \/ ReversePanicsFrom(s, i + 1, j - 1)
    ELSE FALSE

ReversePanics(s) == ReversePanicsFrom(s, 0, Size(s) - 1)

\* the methods that would panic if called now on the queue with slice s
\* (Enqueue, IsEmpty, Size, Clear and Contains index nothing)
Panics(h, s) ==
    {m \in {"Dequeue", "Front", "PeekLast", "ToSlice", "Copy", "Remove", "Reverse"} :
        \/ m = "Dequeue" /\ DequeuePanics(s)
        \/ m = "Front" /\ FrontPanics(s)
        \/ m = "PeekLast" /\ PeekLastPanics(s)
        \/ m \in {"ToSlice", "Copy"} /\ MakePanics(s)
        \/ m = "Remove" /\ \E v \in Values : RemovePanics(h, s, v)
        \/ m = "Reverse" /\ ReversePanics(s)}

\* ------------------------------------------------------------------ state
\* what a caller observes of queue i: its elements, head to tail
View(i) == Window(heap, data[i])

\* queue i exists
Active(i) == i = Q \/ copied

Call(op, i, arg, val, err, flag, seq) ==
    [op |-> op, qid |-> i, arg |-> arg, val |-> val, err |-> err, flag |-> flag, seq |-> seq]

\* the state after a call: unreachable arrays are collected
Store(h, d) ==
    /\ heap' = Collect(h, d).h
    /\ data' = Collect(h, d).d

\* the same, for the programs that keep a copy
StoreScrub(h, d) ==
    /\ heap' = CollectScrub(h, d).h
    /\ data' = CollectScrub(h, d).d

Commit(h, d, l) ==
    /\ Store(h, d)
    /\ last' = l

Init ==
    /\ heap = [a \in ArrIds |-> <<>>]
    /\ data = [i \in Holders |-> IF i \in QIds THEN NewQueue ELSE NilSlice]
    /\ copied = FALSE
    /\ last = Call("NewQueue", Q, Zero, Zero, FALSE, FALSE, <<>>)
    /\ enq = <<>>
    /\ deq = <<>>

\* ---------------------------------------------------------------- actions
DoEnqueue(i, v) ==
    /\ Active(i)
    /\ Size(data[i]) < MaxLen
    /\ LET r == Enqueue(heap, data[i], v) IN
       Commit(r.h, [data EXCEPT ![i] = r.s], Call("Enqueue", i, v, Zero, FALSE, FALSE, <<>>))
    /\ UNCHANGED <<copied, enq, deq>>

DoDequeue(i) ==
    /\ Active(i)
    /\ LET r == Dequeue(heap, data[i]) IN
       Commit(r.h, [data EXCEPT ![i] = r.s], Call("Dequeue", i, Zero, r.val, r.err, FALSE, <<>>))
    /\ UNCHANGED <<copied, enq, deq>>

DoFront(i) ==
    /\ Active(i)
    /\ LET r == Front(heap, data[i]) IN
       Commit(heap, data, Call("Front", i, Zero, r.val, r.err, FALSE, <<>>))
    /\ UNCHANGED <<copied, enq, deq>>

DoPeekLast(i) ==
    /\ Active(i)
    /\ LET r == PeekLast(heap, data[i]) IN
       Commit(heap, data, Call("PeekLast", i, Zero, r.val, r.err, FALSE, <<>>))
    /\ UNCHANGED <<copied, enq, deq>>

DoIsEmpty(i) ==
    /\ Active(i)
    /\ Commit(heap, data, Call("IsEmpty", i, Zero, Zero, FALSE, IsEmpty(data[i]), <<>>))
    /\ UNCHANGED <<copied, enq, deq>>

DoSize(i) ==
    /\ Active(i)
    /\ Commit(heap, data, Call("Size", i, Zero, Size(data[i]), FALSE, FALSE, <<>>))
    /\ UNCHANGED <<copied, enq, deq>>

DoClear(i) ==
    /\ Active(i)
    /\ LET r == Clear(heap, data[i]) IN
       Commit(r.h, [data EXCEPT ![i] = r.s], Call("Clear", i, Zero, Zero, FALSE, FALSE, <<>>))
    /\ UNCHANGED <<copied, enq, deq>>

DoContains(i, v) ==
    /\ Active(i)
    /\ Commit(heap, data, Call("Contains", i, v, Zero, FALSE, Contains(heap, data[i], v), <<>>))
    /\ UNCHANGED <<copied, enq, deq>>

\* the caller reads the returned slice and drops it
DoToSlice(i) ==
    /\ Active(i)
    /\ LET r == ToSlice(heap, data[i]) IN
       Commit(r.h, data, Call("ToSlice", i, Zero, Zero, FALSE, FALSE, Window(r.h, r.s)))
    /\ UNCHANGED <<copied, enq, deq>>

DoRemove(i, v) ==
    /\ Active(i)
    /\ LET r == Remove(heap, data[i], v) IN
       Commit(r.h, [data EXCEPT ![i] = r.s], Call("Remove", i, v, Zero, FALSE, r.flag, <<>>))
    /\ UNCHANGED <<copied, enq, deq>>

DoReverse(i) ==
    /\ Active(i)
    /\ LET r == Reverse(heap, data[i]) IN
       Commit(r.h, [data EXCEPT ![i] = r.s], Call("Reverse", i, Zero, Zero, FALSE, FALSE, <<>>))
    /\ UNCHANGED <<copied, enq, deq>>

\* the calls of the single-queue program: every method on q
Next ==
    \/ \E v \in Values : DoEnqueue(Q, v)
    \/ DoDequeue(Q)
    \/ DoFront(Q)
    \/ DoPeekLast(Q)
    \/ DoIsEmpty(Q)
    \/ DoSize(Q)
    \/ DoClear(Q)
    \/ \E v \in Values : DoContains(Q, v)
    \/ DoToSlice(Q)
    \/ \E v \in Values : DoRemove(Q, v)
    \/ DoReverse(Q)

Spec == Init /\ [][Next]_vars

\* ------------------------------------------------- the program with a copy
\* q := NewQueue(); ...; c := q.Copy(); then mutating calls on either queue.
\* Of a call only its receiver, and whether it was Copy or a mutating call,
\* is recorded.
Brief(op, i) == Call(op, i, Zero, Zero, FALSE, FALSE, <<>>)

MutEnqueue(i, v) ==
    /\ Active(i)
    /\ Size(data[i]) < MaxLenCopy
    /\ LET r == Enqueue(heap, data[i], v) IN
       StoreScrub(r.h, [data EXCEPT ![i] = r.s])
    /\ last' = Brief("Mutate", i)
    /\ UNCHANGED <<copied, enq, deq>>

MutDequeue(i) ==
    /\ Active(i)
    /\ LET r == Dequeue(heap, data[i]) IN
       StoreScrub(r.h, [data EXCEPT ![i] = r.s])
    /\ last' = Brief("Mutate", i)
    /\ UNCHANGED <<copied, enq, deq>>

MutRemove(i, v) ==
    /\ Active(i)
    /\ LET r == Remove(heap, data[i], v) IN
       StoreScrub(r.h, [data EXCEPT ![i] = r.s])
    /\ last' = Brief("Mutate", i)
    /\ UNCHANGED <<copied, enq, deq>>

MutReverse(i) ==
    /\ Active(i)
    /\ LET r == Reverse(heap, data[i]) IN
       StoreScrub(r.h, [data EXCEPT ![i] = r.s])
    /\ last' = Brief("Mutate", i)
    /\ UNCHANGED <<copied, enq, deq>>

MutClear(i) ==
    /\ Active(i)
    /\ LET r == Clear(heap, data[i]) IN
       StoreScrub(r.h, [data EXCEPT ![i] = r.s])
    /\ last' = Brief("Mutate", i)
    /\ UNCHANGED <<copied, enq, deq>>

\* c := q.Copy(); the queue c held before, if any, is dropped
DoCopy ==
    /\ LET r == Copy(Collect(heap, [data EXCEPT ![C] = NilSlice]).h, data[Q]) IN
       Commit(r.h, [data EXCEPT ![C] = r.s], Brief("Copy", Q))
    /\ copied' = TRUE
    /\ UNCHANGED <<enq, deq>>

NextCopy ==
    \/ \E i \in QIds, v \in Values : MutEnqueue(i, v)
    \/ \E i \in QIds : MutDequeue(i)
    \/ \E i \in QIds, v \in Values : MutRemove(i, v)
    \/ \E i \in QIds : MutReverse(i)
    \/ \E i \in QIds : MutClear(i)
    \/ DoCopy

SpecCopy == Init /\ [][NextCopy]_vars

\* ------------------------------------------ the program that keeps a slice
\* q := NewQueue(); ...; s := q.ToSlice(); then mutating calls on q and the
\* caller's own writes to s, in any order.

\* s := q.ToSlice(); the slice s held before, if any, is dropped
TakeSlice ==
    /\ LET r == ToSlice(Collect(heap, [data EXCEPT ![S] = NilSlice]).h, data[Q]) IN
       StoreScrub(r.h, [data EXCEPT ![S] = r.s])
    /\ last' = Brief("ToSlice", Q)
    /\ UNCHANGED <<copied, enq, deq>>

\* the caller has a slice returned by ToSlice (which is never nil)
Taken == ~data[S].isnil

\* s[k] = v
WriteSlice(k, v) ==
    /\ Taken
    /\ k < Size(data[S])
    /\ StoreScrub([heap EXCEPT ![data[S].arr][data[S].off + k + 1] = v], data)
    /\ last' = Brief("Mutate", S)
    /\ UNCHANGED <<copied, enq, deq>>

\* s = append(s, v)
AppendSlice(v) ==
    /\ Taken
    /\ Size(data[S]) < MaxLenCopy
    /\ LET r == GoAppend(heap, data[S], v) IN
       StoreScrub(r.h, [data EXCEPT ![S] = r.s])
    /\ last' = Brief("Mutate", S)
    /\ UNCHANGED <<copied, enq, deq>>

NextSlice ==
    \/ \E v \in Values : MutEnqueue(Q, v)
    \/ MutDequeue(Q)
    \/ \E v \in Values : MutRemove(Q, v)
    \/ MutReverse(Q)
    \/ MutClear(Q)
    \/ TakeSlice
    \/ \E k \in 0..(MaxLenCopy - 1), v \in Values : WriteSlice(k, v)
    \/ \E v \in Values : AppendSlice(v)

SpecSlice == Init /\ [][NextSlice]_vars

\* ------------------------------------------- the program with a call history
\* q := NewQueue(), then Enqueue and Dequeue calls on q in any order; enq and
\* deq record the values passed in and the values handed back.
HEnqueue(v) ==
    /\ Len(enq) < MaxOps
    /\ Size(data[Q]) < MaxLen
    /\ LET r == Enqueue(heap, data[Q], v) IN
       Commit(r.h, [data EXCEPT ![Q] = r.s], Call("Enqueue", Q, v, Zero, FALSE, FALSE, <<>>))
    /\ enq' = Append(enq, v)
    /\ UNCHANGED <<copied, deq>>

HDequeue ==
    /\ LET r == Dequeue(heap, data[Q]) IN
       /\ Commit(r.h, [data EXCEPT ![Q] = r.s], Call("Dequeue", Q, Zero, r.val, r.err, FALSE, <<>>))
       /\ deq' = IF r.err THEN deq ELSE Append(deq, r.val)
    /\ UNCHANGED <<copied, enq>>

NextFifo ==
    \/ \E v \in Values : HEnqueue(v)
    \/ HDequeue

SpecFifo == Init /\ [][NextFifo]_vars

\* ------------------------------------------------------------ properties
\* number of elements of seq equal to x
Count(seq, x) == Cardinality({k \in 1..Len(seq) : seq[k] = x})

\* seq back to front
Rev(seq) == [k \in 1..Len(seq) |-> seq[Len(seq) + 1 - k]]

EmptyHeap == [a \in ArrIds |-> <<>>]

\* what every read operation returns on the queue with slice s
Reads(h, s) ==
    [size     |-> Size(s),
     empty    |-> IsEmpty(s),
     front    |-> Front(h, s),
     peekLast |-> PeekLast(h, s),
     dequeue  |-> [val |-> Dequeue(h, s).val, err |-> Dequeue(h, s).err],
     contains |-> [x \in Values |-> Contains(h, s, x)],
     toSlice  |-> Window(ToSlice(h, s).h, ToSlice(h, s).s)]

\* C1 (SpecFifo): FIFO law. Every successful Dequeue returns the oldest
\* value enqueued and not yet returned, so the values returned so far are the
\* values enqueued so far, in the same order; Dequeue fails exactly when every
\* enqueued value has been returned. After Enqueue v1..vn the next n Dequeue
\* calls therefore return v1..vn and the (n+1)-th fails.
C1_FifoLaw ==
    /\ Len(deq) <= Len(enq)
    /\ deq = SubSeq(enq, 1, Len(deq))
    /\ last.op = "Dequeue" =>
          IF last.err THEN deq = enq
          ELSE Len(deq) >= 1 /\ last.val = enq[Len(deq)]

\* three values, one of them twice, enqueued and then dequeued in order with
\* no call in between (the window has moved 3 slots into one array), then a
\* fourth Dequeue that failed
C1_Witness ==
    /\ enq = <<1, 0, 1>>
    /\ deq = enq
    /\ last.op = "Dequeue" /\ last.err
    /\ data[Q].off = 3

\* C2 (Spec): Dequeue, Front and PeekLast return the error, with the zero
\* value, exactly when the queue has size zero; a failed call leaves the
\* queue unchanged and empty; on a non-empty queue none of them fails.
C2_EmptyError ==
    [][last'.op \in {"Dequeue", "Front", "PeekLast"} =>
          /\ last'.err = (Size(data[Q]) = 0)
          /\ last'.err => /\ last'.val = Zero
                          /\ View(Q)' = View(Q)
                          /\ data' = data
                          /\ Size(data'[Q]) = 0]_vars

\* PeekLast failed on a queue that held elements before
C2_Witness ==
    /\ last.op = "PeekLast" /\ last.err /\ last.val = Zero
    /\ ~data[Q].isnil
    /\ Size(data[Q]) = 0

\* C3 (SpecCopy): copy independence. Once c := q.Copy() has run, a mutating
\* call (Enqueue, Dequeue, Remove, Reverse, Clear) on c leaves the size and
\* contents of q unchanged, and one on q leaves those of c unchanged.
C3_CopyIndependent ==
    [][(copied /\ last'.op = "Mutate") =>
          /\ last'.qid = C => View(Q)' = View(Q) /\ Size(data'[Q]) = Size(data[Q])
          /\ last'.qid = Q => View(C)' = View(C) /\ Size(data'[C]) = Size(data[C])]_vars

\* q was dequeued from before or after the copy (its window has moved) and
\* the two queues have since diverged
C3_Witness ==
    /\ copied
    /\ last.op = "Mutate"
    /\ data[Q].off > 0
    /\ View(Q) = <<1>>
    /\ View(C) = <<0, 1>>

\* C4 (SpecCopy): Copy returns a queue with the size and the head-to-tail
\* order of the source, and leaves the source unchanged.
C4_CopyEqual ==
    [][last'.op = "Copy" =>
          /\ View(C)' = View(Q)
          /\ Size(data'[C]) = Size(data[Q])
          /\ View(Q)' = View(Q)
          /\ Size(data'[Q]) = Size(data[Q])]_vars

\* a copy was just taken of a queue holding two different values
C4_Witness ==
    /\ last.op = "Copy"
    /\ View(Q) = <<1, 0>>
    /\ View(C) = <<1, 0>>

\* C5 (SpecFifo): Size is the number of Enqueue calls minus the number of
\* successful Dequeue calls; a failed Dequeue adds to neither count.
C5_SizeIsEnqMinusDeq ==
    Size(data[Q]) = Len(enq) - Len(deq)

\* four enqueues interleaved with two successful dequeues
C5_Witness ==
    /\ Len(enq) = 4
    /\ Len(deq) = 2
    /\ Size(data[Q]) = 2

\* C6 (Spec): IsEmpty is true exactly when Size is 0, and Size is never
\* negative, in every reachable state and in what the two calls return.
C6_EmptyIffSizeZero ==
    /\ IsEmpty(data[Q]) = (Size(data[Q]) = 0)
    /\ Size(data[Q]) >= 0
    /\ last.op = "IsEmpty" => last.flag = (Size(data[Q]) = 0)
    /\ last.op = "Size" => last.val = Size(data[Q]) /\ last.val >= 0

\* IsEmpty returned true on a queue emptied by Dequeue, its array still held
C6_Witness ==
    /\ last.op = "IsEmpty" /\ last.flag
    /\ data[Q].cap > 0
    /\ data[Q].off > 0

\* C7 (Spec): after Clear every read operation (Size, IsEmpty, Front,
\* PeekLast, Dequeue, Contains of every value, ToSlice) returns what it
\* returns on NewQueue(); and while the queue is empty, Dequeue, Front and
\* PeekLast fail and the queue stays empty until an Enqueue.
C7_ClearIsFresh ==
    [][/\ last'.op = "Clear" => Reads(heap', data'[Q]) = Reads(EmptyHeap, NewQueue)
       /\ (Size(data[Q]) = 0 /\ last'.op # "Enqueue") =>
             /\ Size(data'[Q]) = 0
             /\ last'.op \in {"Dequeue", "Front", "PeekLast"} => last'.err]_vars

\* Dequeue failed on a queue that was cleared and not yet enqueued to
C7_Witness ==
    /\ last.op = "Dequeue" /\ last.err
    /\ ~data[Q].isnil
    /\ data[Q].arr = NoArray

\* C8 (Spec): Reverse is an involution. After any Reverse call, a second
\* Reverse yields the head-to-tail contents the queue had before the first.
C8_ReverseTwice ==
    [][last'.op = "Reverse" =>
          LET r == Reverse(heap', data'[Q]) IN
          Window(r.h, r.s) = View(Q)]_vars

\* Reverse ran on three elements that do not read the same both ways
C8_Witness ==
    /\ last.op = "Reverse"
    /\ View(Q) = <<1, 1, 0>>

\* C9 (Spec): one Reverse makes the contents the reverse of what they were,
\* for every length: element i moves to position Size-1-i and Size is
\* unchanged.
C9_ReverseOnce ==
    [][last'.op = "Reverse" =>
          /\ Size(data'[Q]) = Size(data[Q])
          /\ View(Q)' = Rev(View(Q))
          /\ \A k \in 0..(Size(data[Q]) - 1) :
                At(heap', data'[Q], Size(data[Q]) - 1 - k) = At(heap, data[Q], k)]_vars

\* Reverse ran on three elements whose window does not start the array
C9_Witness ==
    /\ last.op = "Reverse"
    /\ data[Q].off > 0
    /\ View(Q) = <<0, 1, 1>>

\* C10 (Spec): Remove(x) on a queue that holds x exactly once returns true;
\* afterwards Contains(x) is false and Size is one less.
C10_RemoveOnce ==
    [][(last'.op = "Remove" /\ Count(View(Q), last'.arg) = 1) =>
          /\ last'.flag
          /\ ~Contains(heap', data'[Q], last'.arg)
          /\ Size(data'[Q]) = Size(data[Q]) - 1]_vars

\* Remove(1) took the only 1 out of three elements; the vacated slot is zeroed
C10_Witness ==
    /\ last.op = "Remove" /\ last.arg = 1 /\ last.flag
    /\ View(Q) = <<0, 0>>
    /\ heap[data[Q].arr][data[Q].off + 3] = Zero
    /\ data[Q].cap >= 3

\* position (from 1) of the first element of seq equal to x
FirstIndex(seq, x) ==
    CHOOSE k \in 1..Len(seq) : seq[k] = x /\ \A j \in 1..(k - 1) : seq[j] # x

\* seq without its k-th element
DeleteAt(seq, k) ==
    [j \in 1..(Len(seq) - 1) |-> IF j < k THEN seq[j] ELSE seq[j + 1]]

\* C11 (Spec): Remove(x) on a queue that does not hold x, the empty queue
\* included, returns false and leaves the size, the contents and the slice
\* unchanged.
C11_RemoveAbsent ==
    [][(last'.op = "Remove" /\ Count(View(Q), last'.arg) = 0) =>
          /\ ~last'.flag
          /\ Size(data'[Q]) = Size(data[Q])
          /\ View(Q)' = View(Q)
          /\ data' = data /\ heap' = heap]_vars

\* Remove(0) returned false on a queue of two elements, both 1
C11_Witness ==
    /\ last.op = "Remove" /\ last.arg = 0 /\ ~last.flag
    /\ View(Q) = <<1, 1>>

\* C12 (Spec): Remove(x) on a queue that holds x one or more times returns
\* true and removes exactly the first occurrence in head-to-tail order; all
\* other elements, later occurrences of x included, keep their relative order.
C12_RemoveFirst ==
    [][(last'.op = "Remove" /\ Count(View(Q), last'.arg) >= 1) =>
          /\ last'.flag
          /\ Size(data'[Q]) = Size(data[Q]) - 1
          /\ View(Q)' = DeleteAt(View(Q), FirstIndex(View(Q), last'.arg))
          /\ Count(View(Q)', last'.arg) = Count(View(Q), last'.arg) - 1]_vars

\* Remove(1) took one of two 1s out of three elements; a 1 is still the tail
C12_Witness ==
    /\ last.op = "Remove" /\ last.arg = 1 /\ last.flag
    /\ View(Q) = <<0, 1>>
    /\ data[Q].cap > Size(data[Q])

\* C13 (Spec): ToSlice returns a sequence whose length is Size and whose
\* elements are the queue's elements head to tail (index 0 is what Front
\* returns, the last index what PeekLast returns), and leaves the queue
\* unchanged.
C13_ToSliceIsContents ==
    [][last'.op = "ToSlice" =>
          /\ Len(last'.seq) = Size(data[Q])
          /\ last'.seq = View(Q)
          /\ Size(data[Q]) > 0 =>
                /\ last'.seq[1] = Front(heap, data[Q]).val
                /\ last'.seq[Len(last'.seq)] = PeekLast(heap, data[Q]).val
          /\ View(Q)' = View(Q)
          /\ data' = data /\ heap' = heap]_vars

\* ToSlice returned three elements of a queue whose window had moved
C13_Witness ==
    /\ last.op = "ToSlice"
    /\ last.seq = <<0, 1, 1>>
    /\ data[Q].off > 0

\* C14 (SpecSlice): the slice ToSlice returned is independent of the queue.
\* Overwriting its elements or appending to it never changes the size or
\* contents of the queue, and a later Enqueue, Dequeue, Remove, Reverse or
\* Clear on the queue never changes the slice.
C14_ToSliceIndependent ==
    [][(Taken /\ last'.op = "Mutate") =>
          /\ last'.qid = S => /\ View(Q)' = View(Q)
                              /\ Size(data'[Q]) = Size(data[Q])
          /\ last'.qid = Q => Window(heap', data'[S]) = Window(heap, data[S])]_vars

\* the caller holds a slice of two elements taken with ToSlice and the queue
\* has since lost its head
C14_Witness ==
    /\ Taken
    /\ last.op = "Mutate" /\ last.qid = Q
    /\ Window(heap, data[S]) = <<0, 0>>
    /\ View(Q) = <<0>>
    /\ data[Q].off = 1

\* C15 (Spec): Front and PeekLast have no side effects. On a non-empty
\* queue Front returns the element the next Dequeue would return and PeekLast
\* the element at the tail; after either call the size, the contents and the
\* slice are what they were.
C15_PeekNoSideEffect ==
    [][last'.op \in {"Front", "PeekLast"} =>
          /\ data' = data /\ heap' = heap
          /\ View(Q)' = View(Q)
          /\ Size(data'[Q]) = Size(data[Q])
          /\ (Size(data[Q]) > 0 /\ last'.op = "Front") =>
                /\ ~last'.err
                /\ last'.val = View(Q)[1]
                /\ last'.val = Dequeue(heap', data'[Q]).val
          /\ (Size(data[Q]) > 0 /\ last'.op = "PeekLast") =>
                /\ ~last'.err
                /\ last'.val = View(Q)[Size(data[Q])]]_vars

\* PeekLast returned the tail 1 of a queue whose head is 0
C15_Witness ==
    /\ last.op = "PeekLast" /\ ~last.err /\ last.val = 1
    /\ View(Q) = <<0, 0, 1>>

\* C16 (Spec): no call aborts. In every reachable state, the empty and the
\* single-element queue included, every index and slice expression a method
\* would evaluate is in range, and the only failure ever reported is the
\* error returned by Dequeue, Front and PeekLast.
C16_NoPanic ==
    /\ Panics(heap, data[Q]) = {}
    /\ last.err => last.op \in {"Dequeue", "Front", "PeekLast"}

\* Reverse completed on an empty queue that still holds an array
C16_Witness ==
    /\ last.op = "Reverse"
    /\ Size(data[Q]) = 0
    /\ data[Q].cap > 0

\* C17 (Spec): Contains(x) returns true exactly when some element now in the
\* queue equals x (false on the empty queue, false for a value that is left
\* only in a slot outside the window), and leaves the queue unchanged.
C17_ContainsIffMember ==
    [][last'.op = "Contains" =>
          /\ last'.flag = (\E k \in 1..Len(View(Q)) : View(Q)[k] = last'.arg)
          /\ Size(data[Q]) = 0 => ~last'.flag
          /\ data' = data /\ heap' = heap
          /\ View(Q)' = View(Q)]_vars

\* Contains(1) returned false on a non-empty queue whose array still holds,
\* in the slot in front of the window, a 1 that was dequeued
C17_Witness ==
    /\ last.op = "Contains" /\ last.arg = 1 /\ ~last.flag
    /\ Size(data[Q]) >= 1
    /\ data[Q].off >= 1
    /\ heap[data[Q].arr][data[Q].off] = 1

\* C18 (SpecFifo): under every interleaving of Enqueue and Dequeue, failed
\* Dequeues included, the values returned by the successful Dequeues are a
\* prefix of the values passed to Enqueue, and the queue holds the remaining
\* suffix, in the same order.
C18_InsertionOrder ==
    /\ Len(deq) <= Len(enq)
    /\ \A k \in 1..Len(deq) : deq[k] = enq[k]
    /\ View(Q) = SubSeq(enq, Len(deq) + 1, Len(enq))

\* two of four values were returned, the other two are the contents; the
\* calls were interleaved (a queue of four would exceed the longest queue)
C18_Witness ==
    /\ enq = <<1, 0, 0, 1>>
    /\ deq = <<1, 0>>
    /\ View(Q) = <<0, 1>>

\* C19 (Spec): Enqueue(v) appends at the tail and changes nothing else. Size
\* grows by one, PeekLast then returns v, every element already there keeps
\* its position, and Front of a non-empty queue returns what it did before.
C19_EnqueueAppends ==
    [][last'.op = "Enqueue" =>
          /\ Size(data'[Q]) = Size(data[Q]) + 1
          /\ PeekLast(heap', data'[Q]) = [val |-> last'.arg, err |-> FALSE]
          /\ \A k \in 1..Size(data[Q]) : View(Q)'[k] = View(Q)[k]
          /\ View(Q)' = Append(View(Q), last'.arg)
          /\ Size(data[Q]) > 0 => Front(heap', data'[Q]) = Front(heap, data[Q])]_vars

\* Enqueue(1) appended in place to a queue whose window had moved
C19_Witness ==
    /\ last.op = "Enqueue" /\ last.arg = 1
    /\ View(Q) = <<0, 0, 1>>
    /\ data[Q].off = 1

\* the abstract queue: what each call does to a sequence
AbstractStep(seq, call) ==
    CASE call.op = "Enqueue" -> Append(seq, call.arg)
      [] call.op = "Dequeue" -> IF seq = <<>> THEN seq ELSE Tail(seq)
      [] call.op = "Remove"  -> IF Count(seq, call.arg) = 0 THEN seq
                                ELSE DeleteAt(seq, FirstIndex(seq, call.arg))
      [] call.op = "Reverse" -> Rev(seq)
      [] call.op = "Clear"   -> <<>>
      [] OTHER               -> seq

\* C20 (Spec): the slice implementation refines the abstract sequence. The
\* new queue is the empty sequence and every call changes the visible window
\* as the abstract operation changes the sequence, so after any sequence of
\* Enqueue, Dequeue, Remove, Reverse and Clear the window equals the abstract
\* sequence: no stale, shifted-over or zeroed slot becomes an element.
C20_RefinesSequence ==
    [][/\ View(Q)' = AbstractStep(View(Q), last')
       /\ last.op = "NewQueue" => View(Q) = <<>>]_vars

\* the window is <<0>> in the middle of an array that holds a stale 1 in
\* front of it and, after a Remove, a zeroed slot behind it
C20_Witness ==
    /\ View(Q) = <<0>>
    /\ data[Q].off >= 1
    /\ data[Q].cap >= 2
    /\ heap[data[Q].arr][data[Q].off] = 1
    /\ heap[data[Q].arr][data[Q].off + 2] = Zero
    /\ last.op = "Remove" /\ last.flag

=============================================================================
